---------------------------- MODULE Spec2Model ----------------------------
(***************************************************************************)
(* A state-machine model of Stage's position model (src/model_position.c): *)
(* the per-tick command interpreter, the position controller, the          *)
(* localization estimator and the lifecycle hooks.                         *)
(*                                                                         *)
(* Numbers.  The C code computes in double.  Here every length, angle,     *)
(* speed and proportion is a fixed-point integer counting units of 1/Q     *)
(* (Q = 10000: 0.1 mm, 0.1 mrad, 0.01 %).  A product of two such numbers   *)
(* is divided by Q and rounded to nearest.  pi is 31416 units.  The libm   *)
(* functions (sin, cos, atan2, hypot) are the fixed-point approximations   *)
(* defined below; they are exact at multiples of a quarter turn.           *)
(***************************************************************************)
EXTENDS Integers, Sequences, FiniteSets, TLC

\* fixed-point resolution of the model's numbers (units per 1.0)
Q == 10000

\* M_PI in fixed point
PI == 31416

Abs(v) == IF v < 0 THEN -v ELSE v

\* fabs()
fabs(v) == Abs(v)

\* the MIN and MAX macros
MIN(a, b) == IF a < b THEN a ELSE b

MAX(a, b) == IF a > b THEN a ELSE b

\* a / b rounded to nearest, symmetric about zero (b > 0)
RDiv(a, b) == IF a >= 0 THEN (2 * a + b) \div (2 * b)
              ELSE -((2 * (-a) + b) \div (2 * b))

\* the fixed-point product a * b
FMul(a, b) == RDiv(a * b, Q)

\* NORMALIZE(z): the angle z brought into (-pi, pi]; the macro is
\* atan2(sin(z), cos(z))
NORMALIZE(z) == ((z + PI - 1) % (2 * PI)) - PI + 1

\* sin on [0, pi], Bhaskara's rational approximation
\* 16 x (pi - x) / (5 pi^2 - 4 x (pi - x)), scaled by Q
SinPos(x) ==
  LET q == (x * (PI - x)) \div Q
      d == (((PI * PI) \div Q) * 5) \div 4
  IN  (4 * q * Q) \div (d - q)

\* sin() of an angle in (-pi, pi]
sin(z) == LET x == NORMALIZE(z) IN IF x >= 0 THEN SinPos(x) ELSE -SinPos(-x)

\* cos()
cos(z) == sin(z + (PI \div 2))

\* atan on [0, 1] (argument and result in fixed point):
\* (pi/4) z + 0.273 z (1 - z)
AtanUnit(z) == RDiv((PI \div 4) * z + 273 * ((z * (Q - z)) \div 1000), Q)

\* atan2(y, x), in (-pi, pi]
atan2(y, x) ==
  LET ax == Abs(x)
      ay == Abs(y)
      base == IF ax = 0 /\ ay = 0 THEN 0
              ELSE IF ay <= ax THEN AtanUnit(RDiv(Q * ay, ax))
              ELSE (PI \div 2) - AtanUnit(RDiv(Q * ax, ay))
      ang == IF x >= 0 THEN base ELSE PI - base
  IN  IF y < 0 THEN -ang ELSE ang

\* integer square root by bisection: the r in lo..hi with r*r <= n < (r+1)^2
RECURSIVE ISqrt(_, _, _)
ISqrt(n, lo, hi) ==
  IF lo >= hi THEN lo
  ELSE LET mid == (lo + hi + 1) \div 2
       IN  IF mid * mid <= n THEN ISqrt(n, mid, hi) ELSE ISqrt(n, lo, mid - 1)

\* hypot(y, x)
hypot(y, x) == ISqrt(x * x + y * y, 0, 46340)


-----------------------------------------------------------------------------
(* Enumerations of stage.h, numbered in declaration order.                 *)

STG_POSITION_CONTROL_VELOCITY == 0

STG_POSITION_CONTROL_POSITION == 1

STG_POSITION_CONTROL_DEFAULT == STG_POSITION_CONTROL_VELOCITY

STG_POSITION_DRIVE_DIFFERENTIAL == 0

STG_POSITION_DRIVE_OMNI == 1

STG_POSITION_DRIVE_DEFAULT == STG_POSITION_DRIVE_DIFFERENTIAL

STG_POSITION_LOCALIZATION_GPS == 0

STG_POSITION_LOCALIZATION_ODOM == 1

STG_POSITION_LOCALIZATION_DEFAULT == STG_POSITION_LOCALIZATION_GPS

\* the maximum proportions of odometry error, 0.03, 0.03 and 0.05
STG_POSITION_INTEGRATION_ERROR_MAX_X == 300

STG_POSITION_INTEGRATION_ERROR_MAX_Y == 300

STG_POSITION_INTEGRATION_ERROR_MAX_A == 500

\* speed limits of the position controller: 0.4 m/s, 0.4 m/s, 1.0 rad/s
max_speed_x == 4000

max_speed_y == 4000

max_speed_a == 10000

\* the position controller's "at the right spot" box, 0.02 m
close_enough == 200

\* mod->world->sim_interval, the simulation step in milliseconds
sim_interval == 500

-----------------------------------------------------------------------------
(* Bounds of the model.                                                    *)

\* calls of position_update and position_load, and writes of
\* "position_data", in one run
MaxCalls == 3

\* simultaneous subscriptions
MaxSubs == 1

-----------------------------------------------------------------------------
(* Inputs.                                                                 *)

Pose(px, py, pa) == [x |-> px, y |-> py, a |-> pa]

ZeroPose == Pose(0, 0, 0)

\* a worldfile entity: the keys it holds and their values
Cfg(k, d, l, o, e) ==
  [keys |-> k, drive |-> d, localization |-> l, localization_origin |-> o,
   odom_error |-> e]

\* where the model may be placed when it is created
StartPoses == { ZeroPose, Pose(10000, 5000, PI \div 2) }

\* what the three calls of drand48() at creation may return, in [0, 1)
Drand48Draws == { <<0, 5000, 9999>>, <<9999, 2500, 0>> }

\* the commands a client may write to "position_cmd"
Commands ==
  { [mode |-> STG_POSITION_CONTROL_VELOCITY, x |-> 3000, y |-> 2000, a |-> 40000],
    [mode |-> STG_POSITION_CONTROL_POSITION, x |-> 10000, y |-> 10000, a |-> 0],
    [mode |-> STG_POSITION_CONTROL_POSITION, x |-> 100, y |-> 100, a |-> 20000],
    [mode |-> STG_POSITION_CONTROL_POSITION, x |-> -10000, y |-> 0, a |-> -20000],
    [mode |-> 2, x |-> 1000, y |-> 1000, a |-> 1000] }

\* localization modes a client may write that are neither "gps" nor "odom"
UnknownLocalizations == { 2 }

\* the worldfile entities position_load may be given
Worldfiles ==
  { Cfg({"drive"}, "omni", "", <<>>, <<>>),
    Cfg({"drive", "localization"}, "diff", "odom", <<>>, <<>>),
    Cfg({"drive", "localization"}, "tank", "slam", <<>>, <<>>),
    Cfg({"localization_origin"}, "", "", <<5000, 0, PI \div 2>>, <<>>),
    Cfg({"localization", "odom_error"}, "", "gps", <<>>, <<300, 300, 500>>),
    Cfg({"odom", "localization_origin", "odom_error"}, "", "", <<0, 10000>>, <<0>>) }

-----------------------------------------------------------------------------
(* State.                                                                  *)

VARIABLES
  gpose,      \* the model's true global pose (stg_model_get_global_pose)
  vel,        \* property "velocity"
  drive,      \* property "position_drive"
  stall,      \* property "position_stall"
  cmd,        \* property "position_cmd"
  data,       \* property "position_data": pose, origin, integration_error, localization
  subs,       \* mod->subs, the number of subscriptions
  pc,         \* where position_update stands: "idle" between two ticks
  refreshed,  \* the properties whose change the running (or last) handler signalled
  errors,     \* the PRINT_ERR messages of the running (or last) handler
  done,       \* history: the steps of the current tick that have run
  loaded,     \* history: <<the worldfile entity>> if the last step was a load, else << >>
  odom_error, \* history: the per-axis maxima E of the odometry error model
  halted,     \* history: position_shutdown ran and no command was written since
  calls       \* history: calls of position_update and position_load so far

vars == <<gpose, vel, drive, stall, cmd, data, subs, pc, refreshed, errors,
          done, loaded, odom_error, halted, calls>>

ZeroVel == [x |-> 0, y |-> 0, a |-> 0]

ZeroCmd == [mode |-> 0, x |-> 0, y |-> 0, a |-> 0]

-----------------------------------------------------------------------------
(* position_update, first part: the command interpreter.                   *)

\* VelocityControl with the lateral command let through in differential mode
VelocityControl_DiffLateral(d, c) ==
  CASE d = STG_POSITION_DRIVE_DIFFERENTIAL -> [x |-> c.x, y |-> c.y, a |-> c.a]
    [] d = STG_POSITION_DRIVE_OMNI -> [x |-> c.x, y |-> c.y, a |-> c.a]
    [] OTHER -> ZeroVel

\* VelocityControl with both drive modes steered as the differential one
VelocityControl_OmniNoLateral(d, c) ==
  CASE d = STG_POSITION_DRIVE_DIFFERENTIAL -> [x |-> c.x, y |-> 0, a |-> c.a]
    [] d = STG_POSITION_DRIVE_OMNI -> [x |-> c.x, y |-> 0, a |-> c.a]
    [] OTHER -> ZeroVel

\* velocity control mode: the switch on the drive mode
VelocityControl(d, c) ==
  CASE d = STG_POSITION_DRIVE_DIFFERENTIAL -> [x |-> c.x, y |-> 0, a |-> c.a]
    [] d = STG_POSITION_DRIVE_OMNI -> [x |-> c.x, y |-> c.y, a |-> c.a]
    [] OTHER -> ZeroVel

\* calc.a of the differential position controller: two assignments in a
\* row, the second of which is the one that stays
TurnRate(a_error) ==
  LET first == MIN(a_error, max_speed_a)
      second == MAX(a_error, -max_speed_a)
  IN  second

\* DifferentialPosition taking one axis within close_enough as being at
\* the goal point
DifferentialPosition_EitherAxis(x_error, y_error, a_error, pose) ==
  IF fabs(x_error) < close_enough \/ fabs(y_error) < close_enough
  THEN [x |-> 0, y |-> 0, a |-> TurnRate(a_error)]
  ELSE LET goal_angle == atan2(y_error, x_error)
           goal_distance == hypot(y_error, x_error)
           a_error2 == NORMALIZE(goal_angle - pose.a)
       IN  [x |-> IF 16 * fabs(a_error2) < PI
                  THEN MIN(goal_distance, max_speed_x) ELSE 0,
            y |-> 0,
            a |-> TurnRate(a_error2)]

\* position control mode, differential drive: turn on the spot when at the
\* goal point, else turn to face it and drive when facing it
DifferentialPosition(x_error, y_error, a_error, pose) ==
  IF fabs(x_error) < close_enough /\ fabs(y_error) < close_enough
  THEN [x |-> 0, y |-> 0, a |-> TurnRate(a_error)]
  ELSE LET goal_angle == atan2(y_error, x_error)
           goal_distance == hypot(y_error, x_error)
           a_error2 == NORMALIZE(goal_angle - pose.a)
       IN  [x |-> IF 16 * fabs(a_error2) < PI
                  THEN MIN(goal_distance, max_speed_x) ELSE 0,
            y |-> 0,
            a |-> TurnRate(a_error2)]

\* OmniPosition with each axis clamped on both sides
OmniPosition_Clamped(x_error, y_error, a_error) ==
  [x |-> MAX(MIN(x_error, max_speed_x), -max_speed_x),
   y |-> MAX(MIN(y_error, max_speed_y), -max_speed_y),
   a |-> MAX(MIN(a_error, max_speed_a), -max_speed_a)]

\* position control mode, omnidirectional drive
OmniPosition(x_error, y_error, a_error) ==
  [x |-> MIN(x_error, max_speed_x),
   y |-> MIN(y_error, max_speed_y),
   a |-> MIN(a_error, max_speed_a)]

\* position control mode: the errors and the switch on the drive mode
PositionControl(d, c, pose) ==
  LET x_error == c.x - pose.x
      y_error == c.y - pose.y
      a_error == NORMALIZE(c.a - pose.a)
  IN  CASE d = STG_POSITION_DRIVE_OMNI -> OmniPosition(x_error, y_error, a_error)
        [] d = STG_POSITION_DRIVE_DIFFERENTIAL ->
             DifferentialPosition(x_error, y_error, a_error, pose)
        [] OTHER -> ZeroVel

\* CommandVelocity without the test of mod->subs
CommandVelocity_IgnoreSubs(s, c, d, pose) ==
  CASE c.mode = STG_POSITION_CONTROL_VELOCITY -> VelocityControl(d, c)
    [] c.mode = STG_POSITION_CONTROL_POSITION -> PositionControl(d, c, pose)
    [] OTHER -> ZeroVel

\* CommandVelocity with a command mode it does not know handled as
\* velocity control
CommandVelocity_UnknownAsVelocity(s, c, d, pose) ==
  IF s = 0 THEN ZeroVel
  ELSE CASE c.mode = STG_POSITION_CONTROL_POSITION -> PositionControl(d, c, pose)
         [] OTHER -> VelocityControl(d, c)

\* the velocity the tick writes: zero, overwritten only when subscribed
CommandVelocity(s, c, d, pose) ==
  IF s = 0 THEN ZeroVel
  ELSE CASE c.mode = STG_POSITION_CONTROL_VELOCITY -> VelocityControl(d, c)
         [] c.mode = STG_POSITION_CONTROL_POSITION -> PositionControl(d, c, pose)
         [] OTHER -> ZeroVel

\* the PRINT_ERR calls of the command interpreter
CommandErrors(s, c, d) ==
  IF s = 0 THEN {}
  ELSE CASE c.mode \in {STG_POSITION_CONTROL_VELOCITY, STG_POSITION_CONTROL_POSITION} ->
              IF d \in {STG_POSITION_DRIVE_DIFFERENTIAL, STG_POSITION_DRIVE_OMNI}
              THEN {} ELSE {"unknown steering mode"}
         [] OTHER -> {"unrecognized position command mode"}

\* AfterCommand without the call of _model_update
AfterCommand_SkipIntegrator == "localize"

\* the step that follows the command interpreter
AfterCommand == "integrate"

\* position_update up to the call of _model_update
position_update_command ==
  /\ pc = "idle"
  /\ calls < MaxCalls
  /\ calls' = calls + 1
  /\ vel' = CommandVelocity(subs, cmd, drive, data.pose)
  /\ stall' = IF subs # 0 THEN FALSE ELSE stall
  /\ refreshed' = IF subs # 0 THEN {"position_stall", "velocity"} ELSE {}
  /\ errors' = CommandErrors(subs, cmd, drive)
  /\ done' = <<"command">>
  /\ pc' = AfterCommand
  /\ loaded' = <<>>
  /\ UNCHANGED <<gpose, drive, cmd, data, subs, odom_error, halted>>

-----------------------------------------------------------------------------
(* _model_update: the inherited update, which moves the model.             *)

\* velocity * dt, dt = sim_interval / 1e3 seconds
TimesDt(v) == RDiv(v * sim_interval, 1000)

\* the true pose after one step at velocity v (given in the model's frame)
MovePose(gp, v) ==
  LET cosa == cos(gp.a)
      sina == sin(gp.a)
      dx == TimesDt(v.x)
      dy == TimesDt(v.y)
  IN  [x |-> gp.x + RDiv(dx * cosa - dy * sina, Q),
       y |-> gp.y + RDiv(dx * sina + dy * cosa, Q),
       a |-> NORMALIZE(gp.a + TimesDt(v.a))]

model_update ==
  /\ pc = "integrate"
  /\ gpose' = MovePose(gpose, vel)
  /\ done' = Append(done, "integrate")
  /\ pc' = "localize"
  /\ UNCHANGED <<vel, drive, stall, cmd, data, subs, refreshed, errors,
                 loaded, odom_error, halted, calls>>

-----------------------------------------------------------------------------
(* position_update, second part: the localization estimator.               *)

\* LocalizeGPS with the displacement rotated by +origin.a
LocalizeGPS_RotateForward(gp, origin) ==
  LET pa == NORMALIZE(gp.a - origin.a)
      cosa == cos(origin.a)
      sina == sin(origin.a)
      dx == gp.x - origin.x
      dy == gp.y - origin.y
  IN  [x |-> RDiv(dx * cosa - dy * sina, Q),
       y |-> RDiv(dy * cosa + dx * sina, Q),
       a |-> pa]

\* STG_POSITION_LOCALIZATION_GPS: the pose from the origin and the true pose
LocalizeGPS(gp, origin) ==
  LET pa == NORMALIZE(gp.a - origin.a)
      cosa == cos(origin.a)
      sina == sin(origin.a)
      dx == gp.x - origin.x
      dy == gp.y - origin.y
  IN  [x |-> RDiv(dx * cosa + dy * sina, Q),
       y |-> RDiv(dy * cosa - dx * sina, Q),
       a |-> pa]

\* LocalizeOdom without NORMALIZE on the integrated heading
LocalizeOdom_NoNormalize(pose, v, ie) ==
  LET pa == pose.a + FMul(TimesDt(v.a), Q + ie.a)
      cosa == cos(pa)
      sina == sin(pa)
      dx == FMul(TimesDt(v.x), Q + ie.x)
      dy == FMul(TimesDt(v.y), Q + ie.y)
  IN  [x |-> pose.x + RDiv(dx * cosa + dy * sina, Q),
       y |-> pose.y - RDiv(dy * cosa - dx * sina, Q),
       a |-> pa]

\* LocalizeOdom with the heading error added per step, not scaled by the turn
LocalizeOdom_AdditiveError(pose, v, ie) ==
  LET pa == NORMALIZE(pose.a + TimesDt(v.a) + TimesDt(ie.a))
      cosa == cos(pa)
      sina == sin(pa)
      dx == FMul(TimesDt(v.x), Q + ie.x)
      dy == FMul(TimesDt(v.y), Q + ie.y)
  IN  [x |-> pose.x + RDiv(dx * cosa + dy * sina, Q),
       y |-> pose.y - RDiv(dy * cosa - dx * sina, Q),
       a |-> pa]

\* STG_POSITION_LOCALIZATION_ODOM: the velocities integrated over dt
LocalizeOdom(pose, v, ie) ==
  LET pa == NORMALIZE(pose.a + FMul(TimesDt(v.a), Q + ie.a))
      cosa == cos(pa)
      sina == sin(pa)
      dx == FMul(TimesDt(v.x), Q + ie.x)
      dy == FMul(TimesDt(v.y), Q + ie.y)
  IN  [x |-> pose.x + RDiv(dx * cosa + dy * sina, Q),
       y |-> pose.y - RDiv(dy * cosa - dx * sina, Q),
       a |-> pa]

\* Localize with a localization mode it does not know handled as "gps"
Localize_UnknownAsGPS(d, gp, v) ==
  CASE d.localization = STG_POSITION_LOCALIZATION_ODOM ->
         [d EXCEPT !.pose = LocalizeOdom(d.pose, v, d.integration_error)]
    [] OTHER -> [d EXCEPT !.pose = LocalizeGPS(gp, d.origin)]

\* the switch on data->localization
Localize(d, gp, v) ==
  CASE d.localization = STG_POSITION_LOCALIZATION_GPS ->
         [d EXCEPT !.pose = LocalizeGPS(gp, d.origin)]
    [] d.localization = STG_POSITION_LOCALIZATION_ODOM ->
         [d EXCEPT !.pose = LocalizeOdom(d.pose, v, d.integration_error)]
    [] OTHER -> d

\* the PRINT_ERR call of the switch on data->localization
LocalizeErrors(d) ==
  IF d.localization \in {STG_POSITION_LOCALIZATION_GPS, STG_POSITION_LOCALIZATION_ODOM}
  THEN {} ELSE {"unknown localization mode"}

\* position_update after the call of _model_update
position_update_localize ==
  /\ pc = "localize"
  /\ data' = Localize(data, gpose, vel)
  /\ refreshed' = refreshed \cup {"position_data"}
  /\ errors' = errors \cup LocalizeErrors(data)
  /\ done' = Append(done, "localize")
  /\ pc' = "idle"
  /\ UNCHANGED <<gpose, vel, drive, stall, cmd, subs, loaded, odom_error,
                 halted, calls>>

-----------------------------------------------------------------------------
(* position_init: the properties of a newly created model.                 *)

\* drand48() * MAX - MAX/2.0
SampleError(r, max) == FMul(r, max) - RDiv(max, 2)

\* the "position_data" property position_init installs
position_init_data(draw) ==
  [pose |-> ZeroPose,
   origin |-> ZeroPose,
   integration_error |->
     [x |-> SampleError(draw[1], STG_POSITION_INTEGRATION_ERROR_MAX_X),
      y |-> SampleError(draw[2], STG_POSITION_INTEGRATION_ERROR_MAX_Y),
      a |-> SampleError(draw[3], STG_POSITION_INTEGRATION_ERROR_MAX_A)],
   localization |-> STG_POSITION_LOCALIZATION_DEFAULT]

position_init ==
  /\ vel = ZeroVel
  /\ drive = STG_POSITION_DRIVE_DEFAULT
  /\ stall = FALSE
  /\ cmd = [ZeroCmd EXCEPT !.mode = STG_POSITION_CONTROL_DEFAULT]
  /\ \E draw \in Drand48Draws : data = position_init_data(draw)

Init ==
  /\ gpose \in StartPoses
  /\ position_init
  /\ subs = 0
  /\ pc = "idle"
  /\ refreshed = {"velocity", "position_drive", "position_stall",
                  "position_cmd", "position_data"}
  /\ errors = {}
  /\ done = <<>>
  /\ loaded = <<>>
  /\ odom_error = [x |-> STG_POSITION_INTEGRATION_ERROR_MAX_X,
                   y |-> STG_POSITION_INTEGRATION_ERROR_MAX_Y,
                   a |-> STG_POSITION_INTEGRATION_ERROR_MAX_A]
  /\ halted = FALSE
  /\ calls = 0

-----------------------------------------------------------------------------
(* position_load: configuration from the worldfile.                        *)

wf_property_exists(wf, key) == key \in wf.keys

\* wf_read_tuple_length, wf_read_tuple_angle: element index (from 0) of a
\* tuple, or the default when the tuple is too short
wf_read_tuple(tuple, index, default) ==
  IF index < Len(tuple) THEN tuple[index + 1] ELSE default

\* InvalidDrive falling back to "diff", as the error message says
InvalidDrive_Default(now) == STG_POSITION_DRIVE_DIFFERENTIAL

\* the drive mode for a string that is neither "diff" nor "omni"
InvalidDrive(now) == now

\* "position_drive" after the load
LoadDrive(now, wf) ==
  IF wf_property_exists(wf, "drive")
  THEN CASE wf.drive = "diff" -> STG_POSITION_DRIVE_DIFFERENTIAL
         [] wf.drive = "omni" -> STG_POSITION_DRIVE_OMNI
         [] OTHER -> InvalidDrive(now)
  ELSE now

\* the pose position_load computes from the true pose and the new origin
LoadPose(gp, origin) ==
  LET pa == NORMALIZE(gp.a - origin.a)
      cosa == cos(pa)
      sina == sin(pa)
      dx == gp.x - origin.x
      dy == gp.y - origin.y
  IN  [x |-> RDiv(dx * cosa + dy * sina, Q),
       y |-> RDiv(dy * cosa - dx * sina, Q),
       a |-> pa]

\* data->origin and data->pose after the load
LoadOrigin(d, gp, wf) ==
  IF wf_property_exists(wf, "localization_origin")
  THEN LET o == [x |-> wf_read_tuple(wf.localization_origin, 0, d.pose.x),
                 y |-> wf_read_tuple(wf.localization_origin, 1, d.pose.y),
                 a |-> wf_read_tuple(wf.localization_origin, 2, d.pose.a)]
       IN  [d EXCEPT !.origin = o, !.pose = LoadPose(gp, o)]
  ELSE [d EXCEPT !.origin = gp]

\* data->integration_error after the load
LoadOdomError(ie, wf) ==
  IF wf_property_exists(wf, "odom_error")
  THEN [x |-> wf_read_tuple(wf.odom_error, 0, ie.x),
        y |-> wf_read_tuple(wf.odom_error, 1, ie.y),
        a |-> wf_read_tuple(wf.odom_error, 2, ie.a)]
  ELSE ie

\* the localization mode for a string that is neither "gps" nor "odom"
InvalidLocalization(now) == now

\* data->localization after the load
LoadLocalization(now, wf) ==
  IF wf_property_exists(wf, "localization")
  THEN CASE wf.localization = "gps" -> STG_POSITION_LOCALIZATION_GPS
         [] wf.localization = "odom" -> STG_POSITION_LOCALIZATION_ODOM
         [] OTHER -> InvalidLocalization(now)
  ELSE now

\* the maxima E the worldfile configures: the odom_error tuple, as documented
ConfiguredError(e, wf) ==
  IF wf_property_exists(wf, "odom_error")
  THEN [x |-> wf_read_tuple(wf.odom_error, 0, e.x),
        y |-> wf_read_tuple(wf.odom_error, 1, e.y),
        a |-> wf_read_tuple(wf.odom_error, 2, e.a)]
  ELSE e

\* the PRINT_ERR calls of position_load
LoadErrors(wf) ==
  (IF wf_property_exists(wf, "drive") /\ wf.drive \notin {"diff", "omni"}
   THEN {"invalid position drive mode"} ELSE {})
  \cup
  (IF wf_property_exists(wf, "localization") /\ wf.localization \notin {"gps", "odom"}
   THEN {"unrecognized localization mode"} ELSE {})

position_load ==
  /\ pc = "idle"
  /\ calls < MaxCalls
  /\ calls' = calls + 1
  /\ \E wf \in Worldfiles :
       /\ drive' = LoadDrive(drive, wf)
       /\ LET d1 == LoadOrigin(data, gpose, wf)
          IN  data' = [d1 EXCEPT
                 !.integration_error = LoadOdomError(data.integration_error, wf),
                 !.localization = LoadLocalization(data.localization, wf)]
       /\ refreshed' = (IF wf_property_exists(wf, "drive")
                        THEN {"position_drive"} ELSE {}) \cup {"position_data"}
       /\ odom_error' = ConfiguredError(odom_error, wf)
       /\ errors' = LoadErrors(wf)
       /\ loaded' = <<wf>>
  /\ UNCHANGED <<gpose, vel, stall, cmd, subs, pc, done, halted>>

-----------------------------------------------------------------------------
(* Subscriptions, position_startup and position_shutdown.                  *)

\* position_startup changes nothing
position_startup == UNCHANGED <<vel, cmd>>

\* ShutdownCmd zeroing the command's x, y and a but not its mode
ShutdownCmd_KeepMode(c) == [ZeroCmd EXCEPT !.mode = c.mode]

\* "position_cmd" after position_shutdown
ShutdownCmd(c) == ZeroCmd

\* position_shutdown: the command and the velocity are zeroed
position_shutdown ==
  /\ cmd' = ShutdownCmd(cmd)
  /\ vel' = ZeroVel

\* a client subscribes; the first subscription starts the model up
Subscribe ==
  /\ pc = "idle"
  /\ subs < MaxSubs
  /\ subs' = subs + 1
  /\ position_startup
  /\ refreshed' = {}
  /\ errors' = {}
  /\ loaded' = <<>>
  /\ UNCHANGED <<gpose, drive, stall, data, pc, done, odom_error, halted, calls>>

\* a client unsubscribes; the last one to go shuts the model down
Unsubscribe ==
  /\ pc = "idle"
  /\ subs > 0
  /\ subs' = subs - 1
  /\ IF subs' = 0
     THEN /\ position_shutdown
          /\ halted' = TRUE
          /\ refreshed' = {"position_cmd", "velocity"}
     ELSE /\ UNCHANGED <<vel, cmd, halted>>
          /\ refreshed' = {}
  /\ errors' = {}
  /\ loaded' = <<>>
  /\ UNCHANGED <<gpose, drive, stall, data, pc, done, odom_error, calls>>

\* a client writes the "position_cmd" property
SetCommand ==
  /\ pc = "idle"
  /\ \E c \in Commands : cmd' = c
  /\ halted' = FALSE
  /\ refreshed' = {}
  /\ errors' = {}
  /\ loaded' = <<>>
  /\ UNCHANGED <<gpose, vel, drive, stall, data, subs, pc, done, odom_error,
                 calls>>

\* a client writes "position_data" with a localization mode this file does
\* not know; counted with the calls, which bounds it
SetData ==
  /\ pc = "idle"
  /\ calls < MaxCalls
  /\ calls' = calls + 1
  /\ \E l \in UnknownLocalizations : data' = [data EXCEPT !.localization = l]
  /\ refreshed' = {}
  /\ errors' = {}
  /\ loaded' = <<>>
  /\ UNCHANGED <<gpose, vel, drive, stall, cmd, subs, pc, done, odom_error,
                 halted>>

\* collision detection, outside this file, raises "position_stall"
stall_detect ==
  /\ pc = "idle"
  /\ stall = FALSE
  /\ stall' = TRUE
  /\ refreshed' = {}
  /\ errors' = {}
  /\ loaded' = <<>>
  /\ UNCHANGED <<gpose, vel, drive, cmd, data, subs, pc, done, odom_error,
                 halted, calls>>

-----------------------------------------------------------------------------

Next ==
  \/ position_update_command
  \/ model_update
  \/ position_update_localize
  \/ position_load
  \/ Subscribe
  \/ Unsubscribe
  \/ SetCommand
  \/ SetData
  \/ stall_detect

Spec == Init /\ [][Next]_vars

-----------------------------------------------------------------------------
(* Properties.                                                             *)

TickSteps == <<"command", "integrate", "localize">>

Subscribed == subs > 0

\* the last step was a load of a worldfile entity holding this key
JustLoaded(key) == loaded # <<>> /\ key \in loaded[1].keys

\* C1: when the command interpreter has run in a tick with no subscription,
\* the velocity is (0,0,0), whatever the command and the drive mode are.
C1_NoConsumerZeroVelocity ==
  (pc = "integrate" /\ subs = 0) => vel = ZeroVel

C1_Witness ==
  /\ pc = "integrate"
  /\ subs = 0
  /\ cmd.mode = STG_POSITION_CONTROL_VELOCITY
  /\ cmd.x # 0
  /\ drive = STG_POSITION_DRIVE_OMNI

\* C2: with differential drive the velocity a tick has written has y = 0,
\* in velocity and in position mode, subscribed or not.
C2_DifferentialNoLateral ==
  (pc # "idle" /\ drive = STG_POSITION_DRIVE_DIFFERENTIAL) => vel.y = 0

C2_Witness ==
  /\ pc = "integrate"
  /\ drive = STG_POSITION_DRIVE_DIFFERENTIAL
  /\ Subscribed
  /\ cmd.mode = STG_POSITION_CONTROL_VELOCITY
  /\ cmd.y # 0
  /\ vel.x = cmd.x
  /\ vel.x # 0

\* C3: with omnidirectional drive, a velocity-mode command and a
\* subscription, the velocity the tick writes is exactly the command.
C3_OmniVelocityPassThrough ==
  (/\ pc = "integrate"
   /\ drive = STG_POSITION_DRIVE_OMNI
   /\ cmd.mode = STG_POSITION_CONTROL_VELOCITY
   /\ Subscribed)
  => vel = [x |-> cmd.x, y |-> cmd.y, a |-> cmd.a]

C3_Witness ==
  /\ pc = "integrate"
  /\ drive = STG_POSITION_DRIVE_OMNI
  /\ cmd.mode = STG_POSITION_CONTROL_VELOCITY
  /\ Subscribed
  /\ cmd.y # 0
  /\ data.pose # ZeroPose

\* C4: a tick runs the command interpreter, then the integrator, then the
\* localization estimator, each once; in odometry mode the estimator
\* integrates the velocity the command interpreter of this tick computes
\* from the command, the drive mode and the believed pose.
C4_TickOrder ==
  [][/\ (pc = "idle" /\ pc' # "idle") =>
          (pc' = "integrate" /\ done' = SubSeq(TickSteps, 1, 1))
     /\ (pc = "integrate" /\ pc' # "integrate") =>
          (pc' = "localize" /\ done' = SubSeq(TickSteps, 1, 2))
     /\ (pc = "localize" /\ pc' # "localize") =>
          (pc' = "idle" /\ done' = TickSteps)
     /\ (pc = "localize" /\ pc' = "idle"
           /\ data.localization = STG_POSITION_LOCALIZATION_ODOM) =>
          data'.pose =
            LocalizeOdom(data.pose,
                         CommandVelocity(subs, cmd, drive, data.pose),
                         data.integration_error)]_vars

C4_Witness ==
  /\ pc = "idle"
  /\ done = TickSteps
  /\ data.localization = STG_POSITION_LOCALIZATION_ODOM
  /\ vel.x # 0
  /\ data.pose.x # 0

\* C5: once position_shutdown has run and until a command is written, the
\* command's x, y and a and the velocity are zero, through every tick, also
\* with a subscription.
C5_SafetyStop ==
  halted => (cmd.x = 0 /\ cmd.y = 0 /\ cmd.a = 0 /\ vel = ZeroVel)

C5_Witness ==
  /\ halted
  /\ Subscribed
  /\ pc = "integrate"
  /\ data.pose.x # 0

\* C6: the believed heading is in (-pi, pi] in every reachable state.
C6_HeadingNormalized ==
  -PI < data.pose.a /\ data.pose.a <= PI

C6_Witness ==
  /\ pc = "idle"
  /\ done = TickSteps
  /\ data.localization = STG_POSITION_LOCALIZATION_ODOM
  /\ vel.a > 0
  /\ data.pose.a < 0

\* C7: right after a load that holds localization_origin, the believed pose
\* is the pose the ground-truth estimator computes from the true pose and
\* the new origin.
C7_OriginResetsPose ==
  JustLoaded("localization_origin") => data.pose = LocalizeGPS(gpose, data.origin)

\* C8: each odometry error coefficient is at most half the maximum E
\* configured for its axis, in magnitude.
C8_ErrorWithinHalfMax ==
  /\ 2 * Abs(data.integration_error.x) <= odom_error.x
  /\ 2 * Abs(data.integration_error.y) <= odom_error.y
  /\ 2 * Abs(data.integration_error.a) <= odom_error.a

C10_TurnRateClamped ==
  (/\ pc = "integrate"
   /\ Subscribed
   /\ cmd.mode = STG_POSITION_CONTROL_POSITION
   /\ drive = STG_POSITION_DRIVE_DIFFERENTIAL)
  => (vel.a <= max_speed_a /\ vel.a >= -max_speed_a)

\* the smaller of an error and a speed limit
UpperBounded(e, limit) == IF e < limit THEN e ELSE limit

TickEnded ==
  /\ pc = "idle"
  /\ done = TickSteps
  /\ loaded = <<>>
  /\ "position_data" \in refreshed

\* C12: when a tick ends the stall flag is false, with or without a
\* subscription, whatever it was when the tick began.
C12_TickClearsStall ==
  TickEnded => stall = FALSE

\* C13: a tick writes the velocity and signals the change of "velocity"
\* before the integrator runs, with or without a subscription.
C13_WriteImpliesNotify ==
  pc = "integrate" => "velocity" \in refreshed

\* C14: the origin is the true pose the model had when it was created, and
\* stays so through every step that is not a load holding
\* localization_origin, wherever the model has moved to.
C14_OriginIsCreationPose ==
  [][/\ calls = 0 => data.origin = gpose
     /\ ~(JustLoaded("localization_origin"))' => data'.origin = data.origin]_vars

\* the vector (dx, dy) rotated by the angle a
Rotated(dx, dy, a) ==
  [x |-> RDiv(dx * cos(a) - dy * sin(a), Q),
   y |-> RDiv(dx * sin(a) + dy * cos(a), Q)]

\* C15: in odometry mode the estimator sets the heading to
\* a' = NORMALIZE(a + va*dt*(1+err.a)) and adds to (x, y) the vector
\* (vx*dt*(1+err.x), vy*dt*(1+err.y)) rotated by a', for every velocity.
C15_OdometryRotatesByHeading ==
  [][(/\ pc = "localize"
      /\ pc' = "idle"
      /\ data.localization = STG_POSITION_LOCALIZATION_ODOM)
     => LET ie == data.integration_error
            a2 == NORMALIZE(data.pose.a + FMul(TimesDt(vel.a), Q + ie.a))
            d == Rotated(FMul(TimesDt(vel.x), Q + ie.x),
                         FMul(TimesDt(vel.y), Q + ie.y), a2)
        IN  data'.pose = [x |-> data.pose.x + d.x, y |-> data.pose.y + d.y,
                          a |-> a2]]_vars

\* C16: in ground-truth mode, when a tick ends the believed pose is the true
\* pose in the origin's frame: (x, y) is the displacement from the origin
\* rotated by -origin.a and the heading is NORMALIZE(true heading - origin.a),
\* whatever the believed pose was and whatever the error coefficients are.
C16_GroundTruthInOriginFrame ==
  (TickEnded /\ data.localization = STG_POSITION_LOCALIZATION_GPS)
  => LET d == Rotated(gpose.x - data.origin.x, gpose.y - data.origin.y,
                      -data.origin.a)
     IN  data.pose = [x |-> d.x, y |-> d.y,
                      a |-> NORMALIZE(gpose.a - data.origin.a)]

C16_Witness ==
  /\ TickEnded
  /\ data.localization = STG_POSITION_LOCALIZATION_GPS
  /\ data.origin.a # 0
  /\ data.origin.x # 0
  /\ vel.x # 0
  /\ data.pose.x # 0
  /\ data.pose.y # 0
  /\ data.pose.a # 0

\* C17: the odometry error coefficients are those sampled at creation: no
\* load (with or without odom_error), subscription, tick or shutdown
\* changes them.
C17_ErrorSetOnce ==
  [][data'.integration_error = data.integration_error]_vars

\* C18: in position mode with differential drive and a subscription, the
\* forward velocity written is min(goal distance, 0.4) exactly when the
\* position error is outside the close_enough box (|ex| >= 0.02 or
\* |ey| >= 0.02) and the bearing error to the goal is below pi/16 in
\* magnitude, and 0 otherwise: a function of the command and the believed
\* pose alone, whatever the previous tick wrote.
C18_ForwardWhenFacingGoal ==
  (/\ pc = "integrate"
   /\ Subscribed
   /\ cmd.mode = STG_POSITION_CONTROL_POSITION
   /\ drive = STG_POSITION_DRIVE_DIFFERENTIAL)
  => LET ex == cmd.x - data.pose.x
         ey == cmd.y - data.pose.y
         bearing == NORMALIZE(atan2(ey, ex) - data.pose.a)
         outside == Abs(ex) >= 200 \/ Abs(ey) >= 200
         facing == 16 * Abs(bearing) < PI
     IN  vel.x = IF outside /\ facing
                 THEN UpperBounded(hypot(ey, ex), 4000) ELSE 0

C18_Witness ==
  /\ pc = "integrate"
  /\ Subscribed
  /\ cmd.mode = STG_POSITION_CONTROL_POSITION
  /\ drive = STG_POSITION_DRIVE_DIFFERENTIAL
  /\ Abs(cmd.x - data.pose.x) < close_enough
  /\ vel.x > 0
  /\ vel.x < max_speed_x

\* C19: a tick with a subscription whose command mode is neither velocity nor
\* position reports an error and writes zero velocity; the integrator and
\* the localization estimator of that tick then run as in any tick, with
\* that zero velocity, and the tick ends.
C19_UnknownCommandMode ==
  [][(/\ Subscribed
      /\ cmd.mode \notin {STG_POSITION_CONTROL_VELOCITY,
                          STG_POSITION_CONTROL_POSITION})
     => /\ (pc = "idle" /\ pc' # "idle") =>
             /\ pc' = "integrate"
             /\ vel' = ZeroVel
             /\ "unrecognized position command mode" \in errors'
        /\ (pc = "integrate" /\ pc' # "integrate") =>
             /\ pc' = "localize"
             /\ vel' = ZeroVel
             /\ done' = SubSeq(TickSteps, 1, 2)
        /\ (pc = "localize" /\ pc' # "localize") =>
             /\ pc' = "idle"
             /\ vel' = ZeroVel
             /\ done' = TickSteps
             /\ "position_data" \in refreshed'
             /\ data.localization = STG_POSITION_LOCALIZATION_ODOM =>
                  data'.pose = data.pose
             /\ data.localization = STG_POSITION_LOCALIZATION_GPS =>
                  data'.pose.a = NORMALIZE(gpose.a - data.origin.a)]_vars

C19_Witness ==
  /\ TickEnded
  /\ Subscribed
  /\ cmd.mode = 2
  /\ "unrecognized position command mode" \in errors
  /\ vel = ZeroVel
  /\ data.pose.x # 0

\* C20: a tick whose localization mode is neither "gps" nor "odom" reports an
\* error, leaves the believed pose, the origin and the error coefficients as
\* they were, and signals the change of "position_data".
C20_UnknownLocalizationMode ==
  [][(/\ pc = "localize"
      /\ pc' = "idle"
      /\ data.localization \notin {STG_POSITION_LOCALIZATION_GPS,
                                   STG_POSITION_LOCALIZATION_ODOM})
     => /\ data'.pose = data.pose
        /\ data'.origin = data.origin
        /\ data'.integration_error = data.integration_error
        /\ "unknown localization mode" \in errors'
        /\ "position_data" \in refreshed']_vars

C20_Witness ==
  /\ TickEnded
  /\ data.localization \in UnknownLocalizations
  /\ "unknown localization mode" \in errors
  /\ vel.x # 0
  /\ vel.a # 0
  /\ gpose.x # data.pose.x + data.origin.x

\* C21: in odometry mode a tick without a subscription leaves the believed
\* pose (x, y, a) as it was, whatever the stored command, the drive mode and
\* the error coefficients are.
C21_IdleOdometryKeepsPose ==
  [][(/\ pc = "localize"
      /\ pc' = "idle"
      /\ data.localization = STG_POSITION_LOCALIZATION_ODOM
      /\ subs = 0)
     => data'.pose = data.pose]_vars

C21_Witness ==
  /\ TickEnded
  /\ data.localization = STG_POSITION_LOCALIZATION_ODOM
  /\ subs = 0
  /\ cmd.x # 0
  /\ cmd.a # 0
  /\ data.pose.x # 0
  /\ data.pose.a # 0
  /\ data.integration_error.a # 0

=============================================================================
